---- MODULE Spec2Model ----
(***************************************************************************)
(* Model of the per-update Context of src/src/context.ts: the update       *)
(* classifier (updateType), the derived accessors (chat, from, senderChat, *)
(* inlineMessageId), the guard (assert) and the convenience operations     *)
(* that delegate to the outbound transport (this.telegram).                *)
(*                                                                         *)
(* JavaScript values are tagged records: undefined, null, numbers,         *)
(* strings, booleans and objects (an object is a TLA+ record of its own    *)
(* properties).  The Update keeps its keys in insertion order, because     *)
(* `for (const key in this.update)` enumerates them in that order.         *)
(* Top-level fields of the Update may be absent, null or populated; the    *)
(* nested fields follow the declared Bot API types (absent or a value).    *)
(*                                                                         *)
(* The module also models the webhook adapter that generateWebhook of      *)
(* src/src/core/network/error.ts returns: the filter, the parsing of the   *)
(* request body (Buffer, string, parsed object or stream), the call of the *)
(* update handler and the ending of the response.  Four specifications     *)
(* share the variables: Spec (operations of the Context), SpecRead (reads  *)
(* of its accessors), SpecHandler (reads, operations and the settling of   *)
(* transport promises, interleaved) and SpecWebhook (one request).         *)
(***************************************************************************)
EXTENDS Integers, Sequences, FiniteSets, TLC

\* Largest number of own keys of an Update drawn for a Context.
MaxKeys == 2
\* Largest number of calls the recording transport accepts in one dispatch.
MaxCalls == 1

-----------------------------------------------------------------------------
(* JavaScript values *)

Undefined == [t |-> "undefined"]
Null == [t |-> "null"]
Num(n) == [t |-> "num", n |-> n]
Str(s) == [t |-> "str", s |-> s]
Bool(b) == [t |-> "bool", b |-> b]
Obj(fields) == [t |-> "obj", o |-> fields]

\* x == null  (null or undefined): what `??` and `?.` test
IsNullish(x) == x.t \in {"undefined", "null"}

\* typeof x === 'object'  (true of null as well)
TypeofObject(x) == x.t \in {"obj", "null"}

\* ToBoolean(x), as the conditional operator applies it
Truthy(x) ==
  CASE x.t = "bool" -> x.b
    [] x.t = "num" -> x.n # 0
    [] x.t = "str" -> x.s # ""
    [] x.t = "obj" -> TRUE
    [] OTHER -> FALSE

\* a ?? b
Coalesce(a, b) == IF IsNullish(a) THEN b ELSE a

\* x.p on a value that is not null or undefined
Prop(x, p) == IF x.t = "obj" /\ p \in DOMAIN x.o THEN x.o[p] ELSE Undefined

\* x?.p
OptProp(x, p) == IF IsNullish(x) THEN Undefined ELSE Prop(x, p)

\* { ...a, ...b } : the later spread wins on every key it has
SpreadLeftWins(a, b) ==
  [k \in (DOMAIN a) \cup (DOMAIN b) |-> IF k \in DOMAIN a THEN a[k] ELSE b[k]]

Spread(a, b) ==
  [k \in (DOMAIN a) \cup (DOMAIN b) |-> IF k \in DOMAIN b THEN b[k] ELSE a[k]]

\* ...extra where extra may be undefined (spreading undefined adds nothing)
SpreadOf(x) == IF x.t = "obj" THEN x.o ELSE <<>>

-----------------------------------------------------------------------------
(* The Updates a Context is constructed with *)

\* The closed set of update kinds, and the scalar update_id
Kinds ==
  << "message", "edited_message", "channel_post", "edited_channel_post",
     "inline_query", "chosen_inline_result", "callback_query",
     "shipping_query", "pre_checkout_query", "poll", "poll_answer",
     "my_chat_member", "chat_member", "chat_join_request" >>

KindSet == {Kinds[i] : i \in 1..Len(Kinds)}

\* The number that tells the objects of one kind from those of another
KindNo(k) == CHOOSE i \in 1..Len(Kinds) : Kinds[i] = k

ChatOf(n) == Obj([id |-> Num(100 + n)])
UserOf(n) == Obj([id |-> Num(200 + n)])
SenderChatOf(n) == Obj([id |-> Num(300 + n)])
MessageIdOf(n) == Num(400 + n)
ThreadIdOf(n) == Num(500 + n)

\* Message shapes: an ordinary message, a message of a forum topic, a
\* message that carries a thread id without being a topic message (sent
\* on behalf of a chat), and a channel post
PlainMessage(n) ==
  Obj([message_id |-> MessageIdOf(n), chat |-> ChatOf(n), from |-> UserOf(n)])

TopicMessage(n) ==
  Obj([message_id |-> MessageIdOf(n), chat |-> ChatOf(n), from |-> UserOf(n),
       sender_chat |-> SenderChatOf(n),
       message_thread_id |-> ThreadIdOf(n), is_topic_message |-> Bool(TRUE)])

ThreadMessage(n) ==
  Obj([message_id |-> MessageIdOf(n), chat |-> ChatOf(n),
       sender_chat |-> SenderChatOf(n), message_thread_id |-> ThreadIdOf(n)])

ChannelPost(n) ==
  Obj([message_id |-> MessageIdOf(n), chat |-> ChatOf(n),
       sender_chat |-> SenderChatOf(n)])

\* callback_query.message is numbered after the kinds
CbMessageNo == Len(Kinds) + 1

\* The values the field k of an Update is drawn from
ValuesOf(k) ==
  LET n == KindNo(k) IN
  CASE k = "message" ->
         {Null, PlainMessage(n), TopicMessage(n), ThreadMessage(n)}
    [] k = "edited_message" -> {TopicMessage(n)}
    [] k \in {"channel_post", "edited_channel_post"} -> {ChannelPost(n)}
    [] k = "callback_query" ->
         {Null,
          Obj([id |-> Str("cq"), from |-> UserOf(n)]),
          Obj([id |-> Str("cq"), from |-> UserOf(n),
               message |-> TopicMessage(CbMessageNo)]),
          Obj([id |-> Str("cq"), from |-> UserOf(n),
               inline_message_id |-> Str("inline-of-callback_query")])}
    [] k = "chosen_inline_result" ->
         {Obj([result_id |-> Str("r"), from |-> UserOf(n)]),
          Obj([result_id |-> Str("r"), from |-> UserOf(n),
               inline_message_id |-> Str("inline-of-chosen_inline_result")])}
    [] k \in {"inline_query", "shipping_query", "pre_checkout_query"} ->
         {Obj([id |-> Str(k), from |-> UserOf(n)])}
    [] k = "poll" -> {Obj([id |-> Str(k)])}
    [] k = "poll_answer" -> {Obj([poll_id |-> Str(k), user |-> UserOf(n)])}
    [] k = "chat_member" ->
         {Null, Obj([chat |-> ChatOf(n), from |-> UserOf(n)])}
    [] OTHER -> {Obj([chat |-> ChatOf(n), from |-> UserOf(n)])}

\* One own property of an Update
Entries ==
  {[k |-> "update_id", v |-> Num(1)]}
    \cup UNION {{[k |-> kind, v |-> val] : val \in ValuesOf(kind)} : kind \in KindSet}

KeysOf(u) == {u[i].k : i \in 1..Len(u)}

\* The Updates of exactly n keys, in every insertion order
RECURSIVE UpdatesOfLen(_)
UpdatesOfLen(n) ==
  IF n = 0 THEN {<< >>}
  ELSE {Append(u, e) : u \in UpdatesOfLen(n - 1), e \in Entries}

Updates ==
  UNION {{u \in UpdatesOfLen(n) : Cardinality(KeysOf(u)) = n} : n \in 0..MaxKeys}

-----------------------------------------------------------------------------
(* The Context: projections of the Update *)

\* this.update[key]: the own property, undefined when absent
Field(u, key) ==
  IF \E i \in 1..Len(u) : u[i].k = key
  THEN u[CHOOSE i \in 1..Len(u) : u[i].k = key].v
  ELSE Undefined

\* What a thrown exception looks like to the caller
ClassificationError == [t |-> "throw", error |-> "Error", about |-> "updateType"]

UsageError(method, kind) ==
  [t |-> "throw", error |-> "TypeError", method |-> method, kind |-> kind]

IsThrow(r) == r.t = "throw"

\* get updateType(): the first key, in enumeration order, whose typeof is
\* 'object'; throws when there is none
updateTypeAnyKey(u) ==
  IF Len(u) = 0 THEN ClassificationError ELSE Str(u[1].k)

updateType(u) ==
  LET hits == {i \in 1..Len(u) : TypeofObject(u[i].v)} IN
  IF hits = {} THEN ClassificationError
  ELSE Str(u[CHOOSE i \in hits : \A j \in hits : i <= j].k)

message(u) == Field(u, "message")
editedMessage(u) == Field(u, "edited_message")
inlineQuery(u) == Field(u, "inline_query")
shippingQuery(u) == Field(u, "shipping_query")
preCheckoutQuery(u) == Field(u, "pre_checkout_query")
chosenInlineResult(u) == Field(u, "chosen_inline_result")
channelPost(u) == Field(u, "channel_post")
editedChannelPost(u) == Field(u, "edited_channel_post")
callbackQuery(u) == Field(u, "callback_query")
myChatMember(u) == Field(u, "my_chat_member")
chatMember(u) == Field(u, "chat_member")
chatJoinRequest(u) == Field(u, "chat_join_request")

\* getMessageFromAnySource(ctx)
getMessageFromAnySourceChannelFirst(u) ==
  Coalesce(channelPost(u),
  Coalesce(editedChannelPost(u),
  Coalesce(message(u),
  Coalesce(editedMessage(u),
           OptProp(callbackQuery(u), "message")))))

getMessageFromAnySource(u) ==
  Coalesce(message(u),
  Coalesce(editedMessage(u),
  Coalesce(OptProp(callbackQuery(u), "message"),
  Coalesce(channelPost(u),
           editedChannelPost(u)))))

\* get chat()
chatMessageFirst(u) ==
  OptProp(
    Coalesce(getMessageFromAnySource(u),
    Coalesce(chatMember(u),
    Coalesce(myChatMember(u),
             chatJoinRequest(u)))),
    "chat")

chat(u) ==
  OptProp(
    Coalesce(chatMember(u),
    Coalesce(myChatMember(u),
    Coalesce(chatJoinRequest(u),
             getMessageFromAnySource(u)))),
    "chat")

\* get senderChat()
senderChat(u) == OptProp(getMessageFromAnySource(u), "sender_chat")

\* get from()
fromMessageFirst(u) ==
  OptProp(
    Coalesce(getMessageFromAnySource(u),
    Coalesce(callbackQuery(u),
    Coalesce(inlineQuery(u),
    Coalesce(shippingQuery(u),
    Coalesce(preCheckoutQuery(u),
    Coalesce(chosenInlineResult(u),
    Coalesce(chatMember(u),
    Coalesce(myChatMember(u),
             chatJoinRequest(u))))))))),
    "from")

from(u) ==
  OptProp(
    Coalesce(callbackQuery(u),
    Coalesce(inlineQuery(u),
    Coalesce(shippingQuery(u),
    Coalesce(preCheckoutQuery(u),
    Coalesce(chosenInlineResult(u),
    Coalesce(chatMember(u),
    Coalesce(myChatMember(u),
    Coalesce(chatJoinRequest(u),
             getMessageFromAnySource(u))))))))),
    "from")

\* get inlineMessageId()
inlineMessageId(u) ==
  OptProp(Coalesce(callbackQuery(u), chosenInlineResult(u)), "inline_message_id")

\* getThreadId(msg)
getThreadId(msg) ==
  IF Truthy(OptProp(msg, "is_topic_message"))
  THEN Prop(msg, "message_thread_id")
  ELSE Undefined

\* The accessors a handler reads
Accessors ==
  {"updateType", "chat", "from", "senderChat", "inlineMessageId",
   "message", "callbackQuery"}

ReadAccessor(u, a) ==
  CASE a = "updateType" -> updateType(u)
    [] a = "chat" -> chat(u)
    [] a = "from" -> from(u)
    [] a = "senderChat" -> senderChat(u)
    [] a = "inlineMessageId" -> inlineMessageId(u)
    [] a = "message" -> message(u)
    [] a = "callbackQuery" -> callbackQuery(u)

-----------------------------------------------------------------------------
(* The Context: the guard and the convenience operations.  An operation    *)
(* either throws synchronously or returns what the transport method it     *)
(* called returns; Call records the method and the arguments it received.  *)

Passed == [t |-> "passed"]

Call(method, args) == [t |-> "call", method |-> method, args |-> args]

\* assert(value, method): throws when value === undefined; building the
\* message reads this.updateType, which may itself throw
assertNamesNoKind(u, value, method) ==
  IF value = Undefined
  THEN UsageError(method,
                  IF IsThrow(updateType(u)) THEN "undefined" ELSE updateType(u).s)
  ELSE Passed

assert(u, value, method) ==
  IF value = Undefined
  THEN IF IsThrow(updateType(u))
       THEN updateType(u)
       ELSE UsageError(method, updateType(u).s)
  ELSE Passed

answerCbQuery(u, text) ==
  LET a == assert(u, callbackQuery(u), "answerCbQuery") IN
  IF IsThrow(a) THEN a
  ELSE Call("answerCbQuery", <<Prop(callbackQuery(u), "id"), text>>)

\* The six edit-type operations share one body
EditOps ==
  {"editMessageText", "editMessageCaption", "editMessageMedia",
   "editMessageReplyMarkup", "editMessageLiveLocation",
   "stopMessageLiveLocation"}

editGuardCallbackOnly(u) == callbackQuery(u)

editGuard(u) == Coalesce(callbackQuery(u), inlineMessageId(u))

editTargetWithoutInline(u) ==
  << OptProp(chat(u), "id"),
     OptProp(OptProp(callbackQuery(u), "message"), "message_id"),
     Undefined >>

editTarget(u) ==
  << OptProp(chat(u), "id"),
     OptProp(OptProp(callbackQuery(u), "message"), "message_id"),
     inlineMessageId(u) >>

editMessageText(u, text, extra) ==
  LET a == assert(u, editGuard(u), "editMessageText") IN
  IF IsThrow(a) THEN a
  ELSE Call("editMessageText", editTarget(u) \o <<text, extra>>)

editMessageCaption(u, caption, extra) ==
  LET a == assert(u, editGuard(u), "editMessageCaption") IN
  IF IsThrow(a) THEN a
  ELSE Call("editMessageCaption", editTarget(u) \o <<caption, extra>>)

editMessageMedia(u, media, extra) ==
  LET a == assert(u, editGuard(u), "editMessageMedia") IN
  IF IsThrow(a) THEN a
  ELSE Call("editMessageMedia", editTarget(u) \o <<media, extra>>)

editMessageReplyMarkup(u, markup) ==
  LET a == assert(u, editGuard(u), "editMessageReplyMarkup") IN
  IF IsThrow(a) THEN a
  ELSE Call("editMessageReplyMarkup", editTarget(u) \o <<markup>>)

editMessageLiveLocation(u, latitude, longitude, extra) ==
  LET a == assert(u, editGuard(u), "editMessageLiveLocation") IN
  IF IsThrow(a) THEN a
  ELSE Call("editMessageLiveLocation",
            editTarget(u) \o <<latitude, longitude, extra>>)

stopMessageLiveLocation(u, markup) ==
  LET a == assert(u, editGuard(u), "stopMessageLiveLocation") IN
  IF IsThrow(a) THEN a
  ELSE Call("stopMessageLiveLocation", editTarget(u) \o <<markup>>)

sendMessage(u, text, extra) ==
  LET a == assert(u, chat(u), "sendMessage") IN
  IF IsThrow(a) THEN a
  ELSE Call("sendMessage",
            << Prop(chat(u), "id"), text,
               Obj(Spread([message_thread_id |-> getThreadId(message(u))],
                          SpreadOf(extra))) >>)

reply(u, text, extra) ==
  LET reply_to_message_id == OptProp(getMessageFromAnySource(u), "message_id") IN
  sendMessage(u, text,
              Obj(Spread([reply_to_message_id |-> reply_to_message_id],
                         SpreadOf(extra))))

getChatCatches(u) ==
  LET a == assert(u, chat(u), "getChat") IN
  IF IsThrow(a) THEN a
  ELSE [t |-> "caught", promise |-> Call("getChat", << Prop(chat(u), "id") >>)]

getChat(u) ==
  LET a == assert(u, chat(u), "getChat") IN
  IF IsThrow(a) THEN a
  ELSE Call("getChat", <<Prop(chat(u), "id")>>)

banChatMemberUnguarded(u, userId) ==
  Call("banChatMember", <<OptProp(chat(u), "id"), userId>>)

banChatMember(u, userId) ==
  LET a == assert(u, chat(u), "banChatMember") IN
  IF IsThrow(a) THEN a
  ELSE Call("banChatMember", <<Prop(chat(u), "id"), userId>>)

pinChatMessage(u, messageId) ==
  LET a == assert(u, chat(u), "pinChatMessage") IN
  IF IsThrow(a) THEN a
  ELSE Call("pinChatMessage", <<Prop(chat(u), "id"), messageId>>)

setPassportDataErrors(u, errors) ==
  LET a == assert(u, from(u), "setPassportDataErrors") IN
  IF IsThrow(a) THEN a
  ELSE Call("setPassportDataErrors", <<Prop(from(u), "id"), errors>>)

sendPhoto(u, photo, extra) ==
  LET a == assert(u, chat(u), "sendPhoto") IN
  IF IsThrow(a) THEN a
  ELSE Call("sendPhoto",
            << Prop(chat(u), "id"), photo,
               Obj(Spread([message_thread_id |-> getThreadId(message(u))],
                          SpreadOf(extra))) >>)

replyWithPhoto(u, photo, extra) ==
  LET reply_to_message_id == OptProp(getMessageFromAnySource(u), "message_id") IN
  sendPhoto(u, photo,
            Obj(Spread([reply_to_message_id |-> reply_to_message_id],
                       SpreadOf(extra))))

replyWithHTML(u, html, extra) ==
  reply(u, html, Obj(Spread([parse_mode |-> Str("HTML")], SpreadOf(extra))))

\* The five thread-addressed forum-topic operations
ForumOps ==
  {"editForumTopic", "closeForumTopic", "reopenForumTopic", "deleteForumTopic",
   "unpinAllForumTopicMessages"}

editForumTopic(u, extra) ==
  LET a == assert(u, chat(u), "editForumTopic")
      b == assert(u, OptProp(message(u), "message_thread_id"), "editForumTopic")
  IN  IF IsThrow(a) THEN a
      ELSE IF IsThrow(b) THEN b
      ELSE Call("editForumTopic",
                << Prop(chat(u), "id"), Prop(message(u), "message_thread_id"),
                   extra >>)

closeForumTopic(u) ==
  LET a == assert(u, chat(u), "closeForumTopic")
      b == assert(u, OptProp(message(u), "message_thread_id"), "closeForumTopic")
  IN  IF IsThrow(a) THEN a
      ELSE IF IsThrow(b) THEN b
      ELSE Call("closeForumTopic",
                <<Prop(chat(u), "id"), Prop(message(u), "message_thread_id")>>)

reopenForumTopic(u) ==
  LET a == assert(u, chat(u), "reopenForumTopic")
      b == assert(u, OptProp(message(u), "message_thread_id"), "reopenForumTopic")
  IN  IF IsThrow(a) THEN a
      ELSE IF IsThrow(b) THEN b
      ELSE Call("reopenForumTopic",
                <<Prop(chat(u), "id"), Prop(message(u), "message_thread_id")>>)

deleteForumTopic(u) ==
  LET a == assert(u, chat(u), "deleteForumTopic")
      b == assert(u, OptProp(message(u), "message_thread_id"), "deleteForumTopic")
  IN  IF IsThrow(a) THEN a
      ELSE IF IsThrow(b) THEN b
      ELSE Call("deleteForumTopic",
                <<Prop(chat(u), "id"), Prop(message(u), "message_thread_id")>>)

unpinAllForumTopicMessages(u) ==
  LET a == assert(u, chat(u), "unpinAllForumTopicMessages")
      b == assert(u, OptProp(message(u), "message_thread_id"),
                  "unpinAllForumTopicMessages")
  IN  IF IsThrow(a) THEN a
      ELSE IF IsThrow(b) THEN b
      ELSE Call("unpinAllForumTopicMessages",
                <<Prop(chat(u), "id"), Prop(message(u), "message_thread_id")>>)

deleteMessage(u, messageId) ==
  LET a == assert(u, chat(u), "deleteMessage")
      msg == getMessageFromAnySource(u)
      b == assert(u, msg, "deleteMessage")
  IN  IF IsThrow(a) THEN a
      ELSE IF messageId.t # "undefined"
           THEN Call("deleteMessage", <<Prop(chat(u), "id"), messageId>>)
      ELSE IF IsThrow(b) THEN b
      ELSE Call("deleteMessage", <<Prop(chat(u), "id"), Prop(msg, "message_id")>>)

-----------------------------------------------------------------------------
(* The webhook adapter: the request body as text.  A JavaScript string   *)
(* that is parsed is kept as the sequence of its characters; a Buffer is   *)
(* the sequence of its bytes.                                              *)

\* A string value by its characters (typeof is 'string')
Text(cs) == [t |-> "str", cs |-> cs]

\* A Buffer (body instanceof Buffer)
Buffer(bytes) == [t |-> "buffer", bytes |-> bytes]

\* An array value
Arr(elements) == [t |-> "arr", a |-> elements]

\* The printable ASCII characters, from code 32 (space) to code 126 (~);
\* "U+0060" stands for the grave accent, which a TLA+ string cannot hold
Printable ==
  <<
    " ", "!", "\"", "#", "$", "%", "&", "'", "(", ")", "*", "+",
    ",", "-", ".", "/", "0", "1", "2", "3", "4", "5", "6", "7",
    "8", "9", ":", ";", "<", "=", ">", "?", "@", "A", "B", "C",
    "D", "E", "F", "G", "H", "I", "J", "K", "L", "M", "N", "O",
    "P", "Q", "R", "S", "T", "U", "V", "W", "X", "Y", "Z", "[",
    "\\", "]", "^", "_", "U+0060", "a", "b", "c", "d", "e", "f", "g",
    "h", "i", "j", "k", "l", "m", "n", "o", "p", "q", "r", "s",
    "t", "u", "v", "w", "x", "y", "z", "{", "|", "}", "~" >>

\* U+FFFD, which UTF-8 decoding puts in place of a byte that starts no
\* valid sequence
ReplacementChar == "\\uFFFD"

\* The bytes of the bodies drawn: printable ASCII, and 255, which occurs in
\* no valid UTF-8 sequence
IsAscii(b) == b >= 32 /\ b <= 126

CharOfByte(b) == IF IsAscii(b) THEN Printable[b - 31] ELSE ReplacementChar

\* String(buffer), that is buffer.toString('utf8'): never throws
StringOfBuffer(bytes) == [i \in 1..Len(bytes) |-> CharOfByte(bytes[i])]

\* The characters of a property name as one name
RECURSIVE Join(_)
Join(cs) == IF cs = << >> THEN "" ELSE cs[1] \o Join(Tail(cs))

-----------------------------------------------------------------------------
(* JSON.parse, as a recursive descent over the characters.  A parsing      *)
(* function returns the value and the index of the character after it, or  *)
(* fails.  The texts drawn use objects, arrays, strings with the escapes   *)
(* \" \\ \/ only, integers and the three literals.                         *)

Parsed(v, i) == [ok |-> TRUE, v |-> v, i |-> i]
NoParse == [ok |-> FALSE]

\* What a call that may throw gives back
Returned(v) == [t |-> "return", v |-> v]
SyntaxError == [t |-> "throw", error |-> "SyntaxError"]

Digits == <<"0", "1", "2", "3", "4", "5", "6", "7", "8", "9">>
IsDigit(c) == \E d \in 1..Len(Digits) : Digits[d] = c
DigitValue(c) == (CHOOSE d \in 1..Len(Digits) : Digits[d] = c) - 1

RECURSIVE SkipWhitespace(_, _)
SkipWhitespace(txt, i) ==
  IF i <= Len(txt) /\ txt[i] = " " THEN SkipWhitespace(txt, i + 1) ELSE i

StartsWith(txt, i, word) ==
  /\ i + Len(word) - 1 <= Len(txt)
  /\ \A k \in 1..Len(word) : txt[i + k - 1] = word[k]

\* The characters of a string, from the one after the opening quote
RECURSIVE ParseChars(_, _, _)
ParseChars(txt, i, acc) ==
  IF i > Len(txt) THEN NoParse
  ELSE IF txt[i] = "\"" THEN Parsed(acc, i + 1)
  ELSE IF txt[i] = "\\"
    THEN IF i + 1 <= Len(txt) /\ txt[i + 1] \in {"\"", "\\", "/"}
         THEN ParseChars(txt, i + 2, Append(acc, txt[i + 1]))
         ELSE NoParse
  ELSE ParseChars(txt, i + 1, Append(acc, txt[i]))

RECURSIVE ParseDigits(_, _, _)
ParseDigits(txt, i, n) ==
  IF i <= Len(txt) /\ IsDigit(txt[i])
  THEN ParseDigits(txt, i + 1, 10 * n + DigitValue(txt[i]))
  ELSE Parsed(n, i)

\* An integer: an optional minus, then 0 or a digit sequence that does not
\* start with 0
ParseNumber(txt, i) ==
  LET neg == txt[i] = "-"
      j == IF neg THEN i + 1 ELSE i
  IN IF j > Len(txt) \/ ~IsDigit(txt[j]) THEN NoParse
     ELSE LET d == IF txt[j] = "0" THEN Parsed(0, j + 1)
                   ELSE ParseDigits(txt, j, 0)
          IN Parsed(Num(IF neg THEN 0 - d.v ELSE d.v), d.i)

\* obj[key] = v : a repeated name keeps the last value
Define(obj, key, v) ==
  [k \in (DOMAIN obj) \cup {key} |-> IF k = key THEN v ELSE obj[k]]

RECURSIVE ParseValue(_, _)
RECURSIVE ParseMembers(_, _, _)
RECURSIVE ParseElements(_, _, _)

ParseValue(txt, from0) ==
  LET i == SkipWhitespace(txt, from0) IN
  IF i > Len(txt) THEN NoParse
  ELSE
    CASE txt[i] = "{" ->
           LET j == SkipWhitespace(txt, i + 1) IN
           IF j <= Len(txt) /\ txt[j] = "}"
           THEN Parsed(Obj(<< >>), j + 1)
           ELSE ParseMembers(txt, j, << >>)
      [] txt[i] = "[" ->
           LET j == SkipWhitespace(txt, i + 1) IN
           IF j <= Len(txt) /\ txt[j] = "]"
           THEN Parsed(Arr(<< >>), j + 1)
           ELSE ParseElements(txt, j, << >>)
      [] txt[i] = "\"" ->
           LET s == ParseChars(txt, i + 1, << >>) IN
           IF s.ok THEN Parsed(Text(s.v), s.i) ELSE NoParse
      [] txt[i] = "-" \/ IsDigit(txt[i]) -> ParseNumber(txt, i)
      [] StartsWith(txt, i, <<"t", "r", "u", "e">>) -> Parsed(Bool(TRUE), i + 4)
      [] StartsWith(txt, i, <<"f", "a", "l", "s", "e">>) ->
           Parsed(Bool(FALSE), i + 5)
      [] StartsWith(txt, i, <<"n", "u", "l", "l">>) -> Parsed(Null, i + 4)
      [] OTHER -> NoParse

\* The members of an object, from the first character of a member
ParseMembers(txt, i, acc) ==
  IF i > Len(txt) \/ txt[i] # "\"" THEN NoParse
  ELSE
    LET key == ParseChars(txt, i + 1, << >>) IN
    IF ~key.ok THEN NoParse
    ELSE
      LET colon == SkipWhitespace(txt, key.i) IN
      IF colon > Len(txt) \/ txt[colon] # ":" THEN NoParse
      ELSE
        LET val == ParseValue(txt, colon + 1) IN
        IF ~val.ok THEN NoParse
        ELSE
          LET obj == Define(acc, Join(key.v), val.v)
              e == SkipWhitespace(txt, val.i)
          IN IF e > Len(txt) THEN NoParse
             ELSE IF txt[e] = "}" THEN Parsed(Obj(obj), e + 1)
             ELSE IF txt[e] = ","
               THEN ParseMembers(txt, SkipWhitespace(txt, e + 1), obj)
             ELSE NoParse

\* The elements of an array, from the first character of an element
ParseElements(txt, i, acc) ==
  LET val == ParseValue(txt, i) IN
  IF ~val.ok THEN NoParse
  ELSE
    LET e == SkipWhitespace(txt, val.i) IN
    IF e > Len(txt) THEN NoParse
    ELSE IF txt[e] = "]" THEN Parsed(Arr(Append(acc, val.v)), e + 1)
    ELSE IF txt[e] = "," THEN ParseElements(txt, e + 1, Append(acc, val.v))
    ELSE NoParse

\* JSON.parse(text): one value, whitespace around it, and nothing else
JSONparse(txt) ==
  LET r == ParseValue(txt, 1) IN
  IF r.ok /\ SkipWhitespace(txt, r.i) = Len(txt) + 1
  THEN Returned(r.v)
  ELSE SyntaxError

-----------------------------------------------------------------------------
(* The bodies that requests carry: as a string by their characters, as a   *)
(* Buffer or on the stream by their bytes.                                 *)

\* an Update with its id only:  {"update_id":1}
TextUpdate ==
  <<
    "{", "\"", "u", "p", "d", "a", "t", "e", "_", "i", "d", "\"", ":", "1",
    "}" >>

\* an Update that carries a poll:  {"update_id":12, "poll":{"id":"7"}}
TextPoll ==
  <<
    "{", "\"", "u", "p", "d", "a", "t", "e", "_", "i", "d", "\"", ":", "1",
    "2", ",", " ", "\"", "p", "o", "l", "l", "\"", ":", "{", "\"", "i",
    "d", "\"", ":", "\"", "7", "\"", "}", "}" >>

\* a repeated name, an array, trailing whitespace:  {"ok":false,"ok":[true,-3]} 
TextRepeated ==
  <<
    "{", "\"", "o", "k", "\"", ":", "f", "a", "l", "s", "e", ",", "\"",
    "o", "k", "\"", ":", "[", "t", "r", "u", "e", ",", "-", "3", "]", "}",
    " " >>

\* the literal null:  null
TextNull ==
  <<
    "n", "u", "l", "l" >>

\* nothing at all:  
TextEmpty == << >>

\* an object that is cut short:  {"update_id":1
TextTruncated ==
  <<
    "{", "\"", "u", "p", "d", "a", "t", "e", "_", "i", "d", "\"", ":", "1" >>

\* a value followed by more:  {"update_id":1}}
TextTrailing ==
  <<
    "{", "\"", "u", "p", "d", "a", "t", "e", "_", "i", "d", "\"", ":", "1",
    "}", "}" >>

\* a form-encoded body:  update_id=1
TextForm ==
  <<
    "u", "p", "d", "a", "t", "e", "_", "i", "d", "=", "1" >>

\* a number with a leading zero:  {"update_id":01}
TextLeadingZero ==
  <<
    "{", "\"", "u", "p", "d", "a", "t", "e", "_", "i", "d", "\"", ":", "0",
    "1", "}" >>

ValidTexts == {TextUpdate, TextPoll, TextRepeated, TextNull}
MalformedTexts ==
  {TextEmpty, TextTruncated, TextTrailing, TextForm, TextLeadingZero}
Texts == ValidTexts \cup MalformedTexts

\* Buffer.from(text): the UTF-8 bytes of a text of ASCII characters
ByteOfChar(c) == 31 + CHOOSE i \in 1..Len(Printable) : Printable[i] = c
BytesOfText(cs) == [i \in 1..Len(cs) |-> ByteOfChar(cs[i])]

\* Bytes that are no UTF-8: the byte 255 inside a string literal, and the
\* byte 255 in place of the closing brace of an object
BytesBadInString == <<34, 255, 34>>
BytesBadBrace == <<123, 34, 97, 34, 58, 49, 255>>

ValidBytes == {BytesOfText(cs) : cs \in ValidTexts} \cup {BytesBadInString}
MalformedBytes == {BytesOfText(cs) : cs \in MalformedTexts} \cup {BytesBadBrace}
ByteTexts == ValidBytes \cup MalformedBytes

\* An Update that a body parser of the embedding application has attached
ParsedUpdate == Obj([update_id |-> Num(1), poll |-> Obj([id |-> Text(<<"7">>)])])

-----------------------------------------------------------------------------
(* The webhook adapter: the request, the response and the steps of the     *)
(* function that generateWebhook returns.                                  *)

\* An incoming request: whether the caller's filter accepts it, the body a
\* body parser may have attached, and the bytes its stream delivers
Request(accepted, body, stream) ==
  [accepted |-> accepted, body |-> body, stream |-> stream]

Bodies ==
  {ParsedUpdate} \cup {Text(cs) : cs \in Texts}
                 \cup {Buffer(bytes) : bytes \in ByteTexts}

Requests ==
  {Request(a, body, << >>) : a \in BOOLEAN, body \in Bodies}
    \cup {Request(a, body, bytes) :
            a \in BOOLEAN, body \in {Undefined, Null}, bytes \in ByteTexts}

\* Before any request has arrived
NoRequest == Request(FALSE, Undefined, << >>)

\* The response as the server creates it: status 200, nothing written
NewResponse ==
  [statusCode |-> 200, writableEnded |-> FALSE, ended |-> << >>,
   body |-> FALSE]

\* res.writeHead(statusCode, {})
writeHeadKeepsStatus(r, statusCode) == r

writeHead(r, statusCode) == [r EXCEPT !.statusCode = statusCode]

\* res.end(): `by` remembers whose call it was
end(r, by) ==
  [r EXCEPT !.writableEnded = TRUE, !.ended = Append(@, by)]

\* res.end(data), as a handler that answers in the response calls it
endWith(r, by) == [end(r, by) EXCEPT !.body = TRUE]

\* The continuation used when the caller passes none
defaultNextKeepsStatus(r) == end(r, "adapter")

defaultNext(r) == end([r EXCEPT !.statusCode = 403], "adapter")

\* filter(req), the caller's predicate
filter(rq) == rq.accepted

\* body instanceof Buffer, typeof body === 'string'
InstanceofBuffer(x) == x.t = "buffer"
TypeofString(x) == x.t = "str"

\* The first try block when req.body is set: Buffer to string, string to
\* value, anything else as it is
parseBodyBufferAsIs(body) ==
  IF TypeofString(body) THEN JSONparse(body.cs) ELSE Returned(body)

parseBody(body) ==
  LET text == IF InstanceofBuffer(body)
              THEN Text(StringOfBuffer(body.bytes))
              ELSE body
  IN IF TypeofString(text) THEN JSONparse(text.cs) ELSE Returned(text)

\* json(req): the bytes of the stream, decoded as UTF-8 and parsed as JSON
json(bytes) == JSONparse(StringOfBuffer(bytes))

\* The catch block: respond 415 and return
unsupportedMediaTypeUnended(r) == writeHead(r, 415)

unsupportedMediaType(r) == end(writeHead(r, 415), "adapter")

\* The finally block: end the response unless it has ended
finallyBlockAlwaysEnds(r) == end(r, "adapter")

finallyBlock(r) == IF ~r.writableEnded THEN end(r, "adapter") ELSE r

\* The promise of updateHandler(update) and the promise of the adapter
Pending == [t |-> "pending"]
Fulfilled == [t |-> "fulfilled"]
Rejected(e) == [t |-> "rejected", error |-> e]

\* What the adapter's promise settles to once the finally block has run
propagateSwallows(h) == Fulfilled

propagate(h) == IF h.t = "rejected" THEN Rejected(h.error) ELSE Fulfilled

\* The errors a handler fails with, and the statuses it answers with
HandlerErrors == {"TypeError: Telegraf: \"reply\" isn't available", "403: Forbidden"}
HandlerStatuses == {200, 202}

\* What a continuation of the caller does with the response: hands the
\* request on and leaves the response alone, or answers 404
Continuations == {"pass", "respond"}
customNext(r, does) ==
  IF does = "respond" THEN end([r EXCEPT !.statusCode = 404], "next") ELSE r

-----------------------------------------------------------------------------
(* The state machine: one Context, the handler that uses it, and the       *)
(* transport stub that counts the calls it receives.                       *)

VARIABLES
  update,       \* ctx.update, the Update the Context was constructed with
  invocations,  \* number of calls the transport has received
  last,         \* the handler's last step: operation, arguments, the
                \* transport's count before it, and what it returned or threw
  settlement,   \* what the promise of the transport's last call settled to
  req,          \* the request the webhook adapter was called with
  res,          \* its response
  next,         \* whether the caller passed a continuation of its own
  pc,           \* where the adapter's call stands
  parsed,       \* what the parsing of the body gave
  handled,      \* the values updateHandler was called with, in order
  handler,      \* the promise of updateHandler(update)
  continued,    \* number of calls of the caller's continuation
  completion    \* the promise the adapter's call returned

hookVars ==
  <<req, res, next, pc, parsed, handled, handler, continued, completion>>

ctxVars == <<update, invocations, last, settlement>>

vars == <<ctxVars, hookVars>>

\* No call has been made
NotCalled == [t |-> "none"]

\* No request is in flight while a handler works with its Context
HookIdle ==
  /\ req = NoRequest
  /\ res = NewResponse
  /\ next = "default"
  /\ pc = "idle"
  /\ parsed = NotCalled
  /\ handled = << >>
  /\ handler = NotCalled
  /\ continued = 0
  /\ completion = Pending

\* What the caller passes
TheText == Str("text")
ThePhoto == Str("photo")
TheUserId == Num(7)
TheMessageId == Num(8)
TheMarkup == Obj([inline_keyboard |-> Str("kb")])
TheErrors == Str("errors")

\* The `extra` objects a caller passes to send- and reply-type operations:
\* none, one that sets the reply target and the thread, and one that has
\* the reply-target key with the value undefined and sets no thread
Extras ==
  {Undefined,
   Obj([reply_to_message_id |-> Num(99), message_thread_id |-> Num(77)]),
   Obj([reply_to_message_id |-> Undefined, disable_notification |-> Bool(TRUE)])}

Init ==
  /\ update \in Updates
  /\ invocations = 0
  /\ last = [op |-> "new Context", args |-> << >>, before |-> 0, res |-> Undefined]
  /\ settlement = Pending
  /\ HookIdle

\* The handler reads an accessor
GetDropsNulls(a) ==
  /\ last' = [op |-> a, args |-> << >>, before |-> invocations,
              res |-> ReadAccessor(update, a)]
  /\ update' = SelectSeq(update, LAMBDA e : e.v # Null)
  /\ UNCHANGED <<invocations, settlement, hookVars>>

Get(a) ==
  /\ last' = [op |-> a, args |-> << >>, before |-> invocations,
              res |-> ReadAccessor(update, a)]
  /\ UNCHANGED <<update, invocations, settlement, hookVars>>

\* The handler calls an operation: the transport counts the call the
\* operation makes, and a thrown error leaves the transport untouched.
\* The handler does not catch: an operation that throws ends the dispatch.
Perform(op, args, ret) ==
  /\ invocations < MaxCalls
  /\ ~IsThrow(last.res)
  /\ last' = [op |-> op, args |-> args, before |-> invocations, res |-> ret]
  /\ invocations' = IF ret.t = "call" THEN invocations + 1 ELSE invocations
  /\ settlement' = IF ret.t = "call" THEN Pending ELSE settlement
  /\ UNCHANGED <<update, hookVars>>

ReadStep == \E a \in Accessors : Get(a)

AnswerCbQuery ==
  Perform("answerCbQuery", <<TheText>>, answerCbQuery(update, TheText))

EditMessageText ==
  Perform("editMessageText", <<TheText, Undefined>>,
          editMessageText(update, TheText, Undefined))

EditMessageCaption ==
  Perform("editMessageCaption", <<TheText, Undefined>>,
          editMessageCaption(update, TheText, Undefined))

EditMessageMedia ==
  Perform("editMessageMedia", <<ThePhoto, Undefined>>,
          editMessageMedia(update, ThePhoto, Undefined))

EditMessageReplyMarkup ==
  Perform("editMessageReplyMarkup", <<TheMarkup>>,
          editMessageReplyMarkup(update, TheMarkup))

EditMessageLiveLocation ==
  Perform("editMessageLiveLocation", <<Num(1), Num(2), Undefined>>,
          editMessageLiveLocation(update, Num(1), Num(2), Undefined))

StopMessageLiveLocation ==
  Perform("stopMessageLiveLocation", <<TheMarkup>>,
          stopMessageLiveLocation(update, TheMarkup))

SendMessage ==
  \E extra \in Extras :
    Perform("sendMessage", <<TheText, extra>>, sendMessage(update, TheText, extra))

Reply ==
  \E extra \in Extras :
    Perform("reply", <<TheText, extra>>, reply(update, TheText, extra))

ReplyWithHTML ==
  \E extra \in Extras :
    Perform("replyWithHTML", <<TheText, extra>>,
            replyWithHTML(update, TheText, extra))

SendPhoto ==
  \E extra \in Extras :
    Perform("sendPhoto", <<ThePhoto, extra>>, sendPhoto(update, ThePhoto, extra))

ReplyWithPhoto ==
  \E extra \in Extras :
    Perform("replyWithPhoto", <<ThePhoto, extra>>,
            replyWithPhoto(update, ThePhoto, extra))

GetChat == Perform("getChat", << >>, getChat(update))

BanChatMember ==
  Perform("banChatMember", <<TheUserId>>, banChatMember(update, TheUserId))

PinChatMessage ==
  Perform("pinChatMessage", <<TheMessageId>>,
          pinChatMessage(update, TheMessageId))

SetPassportDataErrors ==
  Perform("setPassportDataErrors", <<TheErrors>>,
          setPassportDataErrors(update, TheErrors))

DeleteMessage ==
  \E messageId \in {Undefined, TheMessageId} :
    Perform("deleteMessage", <<messageId>>, deleteMessage(update, messageId))

EditForumTopic ==
  Perform("editForumTopic", <<Undefined>>, editForumTopic(update, Undefined))

CloseForumTopic == Perform("closeForumTopic", << >>, closeForumTopic(update))

ReopenForumTopic == Perform("reopenForumTopic", << >>, reopenForumTopic(update))

DeleteForumTopic == Perform("deleteForumTopic", << >>, deleteForumTopic(update))

UnpinAllForumTopicMessages ==
  Perform("unpinAllForumTopicMessages", << >>, unpinAllForumTopicMessages(update))

Next ==
  \/ AnswerCbQuery
  \/ EditMessageText
  \/ EditMessageCaption
  \/ EditMessageMedia
  \/ EditMessageReplyMarkup
  \/ EditMessageLiveLocation
  \/ StopMessageLiveLocation
  \/ SendMessage
  \/ Reply
  \/ ReplyWithHTML
  \/ SendPhoto
  \/ ReplyWithPhoto
  \/ GetChat
  \/ BanChatMember
  \/ PinChatMessage
  \/ SetPassportDataErrors
  \/ DeleteMessage
  \/ EditForumTopic
  \/ CloseForumTopic
  \/ ReopenForumTopic
  \/ DeleteForumTopic
  \/ UnpinAllForumTopicMessages

Spec == Init /\ [][Next]_vars

\* The handler only reads the derived accessors
SpecRead == Init /\ [][ReadStep]_vars

\* A failure of the remote API, as the transport rejects with it
TelegramError(error_code, description) ==
  [name |-> "TelegramError",
   response |-> [error_code |-> error_code, description |-> description]]

\* What the promise of a transport call settles to: the result of the
\* remote API, or a TelegramError
Resolved(result) == [t |-> "fulfilled", v |-> result]

Settlements ==
  {Resolved(Bool(TRUE)),
   Rejected(TelegramError(403, "Forbidden: bot was blocked by the user")),
   Rejected(TelegramError(429, "Too Many Requests: retry after 5"))}

\* The promise that the last operation returned settles.  The operation
\* returned the transport's own promise and attached nothing to it, so no
\* code of the Context runs
Settle ==
  /\ last.res.t = "call"
  /\ settlement = Pending
  /\ settlement' \in Settlements
  /\ UNCHANGED <<update, invocations, last, hookVars>>

\* An Update as the Bot API sends it: one populated field
InitHandler == Init /\ Len(update) = 1

\* The handler reads accessors and calls operations in any order, while
\* the promises of the transport settle
NextHandler == Next \/ ReadStep \/ Settle

SpecHandler == InitHandler /\ [][NextHandler]_vars

-----------------------------------------------------------------------------
(* The webhook adapter as a state machine: one request, from the call of   *)
(* the adapter to the settling of the promise it returns.                  *)

\* A request arrives with a fresh response; the caller passes its own
\* continuation or none
InitWebhook ==
  /\ req \in Requests
  /\ res = NewResponse
  /\ next \in {"default", "custom"}
  /\ pc = "received"
  /\ parsed = NotCalled
  /\ handled = << >>
  /\ handler = NotCalled
  /\ continued = 0
  /\ completion = Pending
  /\ update = << >>
  /\ invocations = 0
  /\ last = [op |-> "new Context", args |-> << >>, before |-> 0, res |-> Undefined]
  /\ settlement = Pending

\* await updateHandler(update): the handler is called with the value, and
\* the adapter waits for its promise
DispatchAnswersFirst(value) ==
  /\ handled' = Append(handled, value)
  /\ handler' = Pending
  /\ pc' = "awaiting handler"
  /\ res' = end(res, "adapter")
  /\ UNCHANGED completion

Dispatch(value) ==
  /\ handled' = Append(handled, value)
  /\ handler' = Pending
  /\ pc' = "awaiting handler"
  /\ UNCHANGED <<res, completion>>

\* The catch block, and the return that follows it
GiveUp ==
  /\ res' = unsupportedMediaType(res)
  /\ completion' = Fulfilled
  /\ pc' = "done"
  /\ UNCHANGED <<handled, handler>>

\* if (!filter(req)) return next()
RejectByDefault ==
  /\ pc = "received"
  /\ ~filter(req)
  /\ next = "default"
  /\ res' = defaultNext(res)
  /\ completion' = Fulfilled
  /\ pc' = "done"
  /\ UNCHANGED <<ctxVars, req, next, parsed, handled,
                 handler, continued>>

RejectByContinuation ==
  /\ pc = "received"
  /\ ~filter(req)
  /\ next = "custom"
  /\ \E does \in Continuations : res' = customNext(res, does)
  /\ continued' = continued + 1
  /\ completion' = Fulfilled
  /\ pc' = "done"
  /\ UNCHANGED <<ctxVars, req, next, parsed, handled,
                 handler>>

\* req.body != null: the body is parsed at once, and the handler is
\* called or the request given up
ParseBody ==
  /\ pc = "received"
  /\ filter(req)
  /\ ~IsNullish(req.body)
  /\ parsed' = parseBody(req.body)
  /\ IF parsed'.t = "return" THEN Dispatch(parsed'.v) ELSE GiveUp
  /\ UNCHANGED <<ctxVars, req, next, continued>>

\* req.body == null: the adapter waits for json(req)
ReadStream ==
  /\ pc = "received"
  /\ filter(req)
  /\ IsNullish(req.body)
  /\ pc' = "awaiting json"
  /\ UNCHANGED <<ctxVars, req, res, next, parsed, handled,
                 handler, continued, completion>>

\* json(req) settles: the handler is called or the request given up
StreamEnd ==
  /\ pc = "awaiting json"
  /\ parsed' = json(req.stream)
  /\ IF parsed'.t = "return" THEN Dispatch(parsed'.v) ELSE GiveUp
  /\ UNCHANGED <<ctxVars, req, next, continued>>

\* The handler answers in the response while it runs
HandlerEnds ==
  /\ pc = "awaiting handler"
  /\ ~res.writableEnded
  /\ \E status \in HandlerStatuses :
       res' = endWith(writeHead(res, status), "handler")
  /\ UNCHANGED <<ctxVars, req, next, pc, parsed, handled,
                 handler, continued, completion>>

\* The handler's promise is fulfilled
HandlerResolves ==
  /\ pc = "awaiting handler"
  /\ handler' = Fulfilled
  /\ pc' = "finally"
  /\ UNCHANGED <<ctxVars, req, res, next, parsed, handled,
                 continued, completion>>

\* The handler throws, or its promise is rejected
HandlerRejects ==
  /\ pc = "awaiting handler"
  /\ \E e \in HandlerErrors : handler' = Rejected(e)
  /\ pc' = "finally"
  /\ UNCHANGED <<ctxVars, req, res, next, parsed, handled,
                 continued, completion>>

\* finally { if (!res.writableEnded) res.end() }
Finally ==
  /\ pc = "finally"
  /\ res' = finallyBlock(res)
  /\ pc' = "completing"
  /\ UNCHANGED <<ctxVars, req, next, parsed, handled,
                 handler, continued, completion>>

\* After the finally block the adapter returns, or the handler's exception
\* goes on to the adapter's caller
Complete ==
  /\ pc = "completing"
  /\ completion' = propagate(handler)
  /\ pc' = "done"
  /\ UNCHANGED <<ctxVars, req, res, next, parsed, handled,
                 handler, continued>>

NextWebhook ==
  \/ RejectByDefault
  \/ RejectByContinuation
  \/ ParseBody
  \/ ReadStream
  \/ StreamEnd
  \/ HandlerEnds
  \/ HandlerResolves
  \/ HandlerRejects
  \/ Finally
  \/ Complete

SpecWebhook == InitWebhook /\ [][NextWebhook]_vars

-----------------------------------------------------------------------------
(* What the claims speak of, stated on the Update itself *)

\* The first element of a sequence that is neither null nor undefined
FirstNonNull(seq) ==
  LET live == {i \in 1..Len(seq) : seq[i].t \notin {"undefined", "null"}} IN
  IF live = {} THEN Undefined
  ELSE seq[CHOOSE i \in live : \A j \in live : i <= j]

\* The sub-field f of x, undefined when x has none
SubField(x, f) == IF x.t = "obj" /\ f \in DOMAIN x.o THEN x.o[f] ELSE Undefined

\* The any-message-bearing rule
AnyMessage(u) ==
  FirstNonNull(<< Field(u, "message"), Field(u, "edited_message"),
                  SubField(Field(u, "callback_query"), "message"),
                  Field(u, "channel_post"), Field(u, "edited_channel_post") >>)

ExpectedChat(u) ==
  SubField(FirstNonNull(<< Field(u, "chat_member"), Field(u, "my_chat_member"),
                           Field(u, "chat_join_request"), AnyMessage(u) >>),
           "chat")

ExpectedFrom(u) ==
  SubField(FirstNonNull(<< Field(u, "callback_query"), Field(u, "inline_query"),
                           Field(u, "shipping_query"),
                           Field(u, "pre_checkout_query"),
                           Field(u, "chosen_inline_result"),
                           Field(u, "chat_member"), Field(u, "my_chat_member"),
                           Field(u, "chat_join_request"), AnyMessage(u) >>),
           "from")

ExpectedInlineMessageId(u) ==
  SubField(FirstNonNull(<< Field(u, "callback_query"),
                           Field(u, "chosen_inline_result") >>),
           "inline_message_id")

\* The kind fields that hold an object
Populated(u) == {k \in KindSet : Field(u, k).t = "obj"}

\* Exactly one kind field is populated and every other kind field is absent
SinglePopulated(u) ==
  /\ Cardinality(Populated(u)) = 1
  /\ KeysOf(u) \subseteq Populated(u) \cup {"update_id"}

\* The Update has the kind field k populated and no other kind field
Only(u, k) == SinglePopulated(u) /\ Populated(u) = {k}

-----------------------------------------------------------------------------
\* C1: on an Update with exactly one kind field populated with an object and
\* no other kind field (update_id may stand before or after it), reading
\* updateType returns the name of the populated field.
C1_UpdateTypeOfSinglePopulated ==
  (last.op = "updateType" /\ SinglePopulated(update))
    => \E k \in Populated(update) : last.res = Str(k)

\* C1 witness: updateType was read on an Update whose first key is the scalar
\* update_id and whose second key is the populated kind field.
C1_Witness ==
  /\ last.op = "updateType"
  /\ SinglePopulated(update)
  /\ Len(update) = 2
  /\ update[1].k = "update_id"
  /\ last.res = Str(update[2].k)

\* C2: updateType only returns a key whose value is a non-null object, and
\* throws the classification error on every Update in which no top-level
\* field holds a non-null object.
C2_ReturnsOnlyNonNullObjectKeys ==
  last.op = "updateType"
    => IF \E i \in 1..Len(update) : update[i].v.t = "obj"
       THEN last.res.t = "str" /\ Field(update, last.res.s).t = "obj"
       ELSE last.res = ClassificationError

\* C3: chat is the chat sub-field of the first non-null candidate among
\* chat_member, my_chat_member, chat_join_request and the message of the
\* any-message-bearing rule, and undefined when there is none; a
\* chat_join_request-only Update gives the request's chat, a message-only
\* Update message.chat, a callback_query-only Update
\* callback_query.message.chat.
C3_ChatIsFirstCandidate ==
  last.op = "chat"
    => /\ last.res = ExpectedChat(update)
       /\ Only(update, "chat_join_request")
            => last.res = Field(update, "chat_join_request").o.chat
       /\ Only(update, "message")
            => last.res = Field(update, "message").o.chat
       /\ Only(update, "callback_query")
            => last.res =
                 SubField(SubField(Field(update, "callback_query"), "message"),
                          "chat")

\* C3 witness: chat was read on an Update that has both chat_member and
\* message populated, and gave the chat of chat_member.
C3_Witness ==
  /\ last.op = "chat"
  /\ Populated(update) = {"chat_member", "message"}
  /\ last.res = Field(update, "chat_member").o.chat
  /\ last.res # Field(update, "message").o.chat

\* C4: from is the from sub-field of the first non-null candidate among
\* callback_query, inline_query, shipping_query, pre_checkout_query,
\* chosen_inline_result, chat_member, my_chat_member, chat_join_request and
\* the message of the any-message-bearing rule; with callback_query.from
\* and message.from both present it is the callback query's.
C4_FromIsFirstCandidate ==
  last.op = "from"
    => /\ last.res = ExpectedFrom(update)
       /\ ( /\ SubField(Field(update, "callback_query"), "from") # Undefined
            /\ SubField(Field(update, "message"), "from") # Undefined )
            => last.res = Field(update, "callback_query").o.from

\* C4 witness: from was read on an Update carrying callback_query.from and
\* message.from, two different users.
C4_Witness ==
  /\ last.op = "from"
  /\ SubField(Field(update, "callback_query"), "from") # Undefined
  /\ SubField(Field(update, "message"), "from") # Undefined
  /\ last.res = UserOf(KindNo("callback_query"))
  /\ last.res # Field(update, "message").o.from

\* C5: the any-message-bearing resolution is the first non-null of message,
\* edited_message, callback_query.message, channel_post,
\* edited_channel_post (undefined if none), and senderChat is the
\* sender_chat of that message and of nothing else: it is undefined when
\* only chat_member, my_chat_member or chat_join_request are populated.
C5_SenderChatOfAnyMessage ==
  last.op = "senderChat"
    => /\ getMessageFromAnySource(update) = AnyMessage(update)
       /\ last.res = SubField(AnyMessage(update), "sender_chat")
       /\ ( /\ Populated(update) # {}
            /\ Populated(update)
                 \subseteq {"chat_member", "my_chat_member", "chat_join_request"} )
            => last.res = Undefined

\* C5 witness: senderChat was read on an Update with message and
\* channel_post both populated, where only the channel post has a
\* sender_chat: the message wins and senderChat is undefined.
C5_Witness ==
  /\ last.op = "senderChat"
  /\ {"message", "channel_post"} \subseteq Populated(update)
  /\ SubField(Field(update, "message"), "sender_chat") = Undefined
  /\ SubField(Field(update, "channel_post"), "sender_chat") # Undefined
  /\ last.res = Undefined

-----------------------------------------------------------------------------
(* The operations by the guard they hold *)

\* Operations guarded on this.chat
ChatScopedOps ==
  {"sendMessage", "reply", "replyWithHTML", "sendPhoto", "replyWithPhoto",
   "getChat", "banChatMember", "pinChatMessage", "deleteMessage"} \cup ForumOps

\* Reply-type operations, and the send operation each one delegates to
ReplyOps == {"reply", "replyWithHTML", "replyWithPhoto"}

GuardHolder(op) ==
  CASE op \in {"reply", "replyWithHTML"} -> "sendMessage"
    [] op = "replyWithPhoto" -> "sendPhoto"
    [] OTHER -> op

Operations ==
  ChatScopedOps \cup EditOps \cup {"answerCbQuery", "setPassportDataErrors"}

\* The operation threw and the transport received nothing
FailedBeforeTransport == IsThrow(last.res) /\ invocations = last.before

\* The operation returned the result of exactly one transport call
ReachedTransport == last.res.t = "call" /\ invocations = last.before + 1

\* C6: a chat-scoped operation called on a Context whose Update has no
\* resolvable chat throws synchronously, and the transport has received no
\* call from it.
C6_NoChatNoTransportCall ==
  (last.op \in ChatScopedOps /\ ExpectedChat(update) = Undefined)
    => FailedBeforeTransport

\* C6 witness: a chat-scoped operation was called on an Update whose only
\* populated field is a callback_query without message, and threw.
C6_Witness ==
  /\ last.op \in {"banChatMember", "reply", "deleteMessage"}
  /\ Only(update, "callback_query")
  /\ SubField(Field(update, "callback_query"), "message") = Undefined
  /\ IsThrow(last.res)
  /\ invocations = 0

\* C7 as stated: whenever an operation fails its guard, the error is a usage
\* error naming the operation the caller invoked and the current update
\* kind, reply-type wrappers included, on every Update.
C7_ErrorNamesInvokedOperation ==
  (last.op \in Operations /\ IsThrow(last.res))
    => /\ last.res.error = "TypeError"
       /\ last.res.method = last.op
       /\ Str(last.res.kind) = updateType(update)

\* C7 amended: whenever an operation fails its guard, then on an Update that
\* updateType can classify the error is a usage error naming the operation
\* that holds the guard (the operation itself; sendMessage for reply and
\* replyWithHTML, sendPhoto for replyWithPhoto) and the current update
\* kind, and on an Update that updateType cannot classify it is the
\* classification error.
C7_ErrorNamesGuardHolder ==
  (last.op \in Operations /\ IsThrow(last.res))
    => IF IsThrow(updateType(update))
       THEN last.res = ClassificationError
       ELSE /\ last.res.error = "TypeError"
            /\ last.res.method = GuardHolder(last.op)
            /\ Str(last.res.kind) = updateType(update)

\* C7 witness: reply threw on an inline_query Update and the error names
\* sendMessage and inline_query.
C7_Witness ==
  /\ last.op = "reply"
  /\ Only(update, "inline_query")
  /\ last.res = UsageError("sendMessage", "inline_query")

\* C8: an edit-type operation reaches the transport if and only if the
\* Update has a callback query or a resolvable inline-message-id; otherwise
\* it throws with no transport call; when it reaches the transport it
\* passes the resolved chat id, the callback query message's id and the
\* inline-message-id, each as resolved, followed by the caller's arguments.
C8_EditReachesTransportIffAddressed ==
  last.op \in EditOps
    => LET addressed ==
             \/ Field(update, "callback_query").t \notin {"undefined", "null"}
             \/ ExpectedInlineMessageId(update) # Undefined
       IN  /\ addressed <=> ReachedTransport
           /\ ~addressed => FailedBeforeTransport
           /\ addressed =>
                /\ last.res.method = last.op
                /\ last.res.args =
                     << SubField(ExpectedChat(update), "id"),
                        SubField(SubField(Field(update, "callback_query"),
                                          "message"), "message_id"),
                        ExpectedInlineMessageId(update) >> \o last.args

\* C8 witness: editMessageText reached the transport on an Update without
\* callback query, addressed by the inline-message-id of its
\* chosen_inline_result alone.
C8_Witness ==
  /\ last.op = "editMessageText"
  /\ Field(update, "callback_query") = Undefined
  /\ ReachedTransport
  /\ last.res.args[1] = Undefined
  /\ last.res.args[2] = Undefined
  /\ last.res.args[3] = Str("inline-of-chosen_inline_result")

\* C9: a reply-type operation that reaches the transport passes an extra in
\* which every key of the caller's extra has the caller's value, and in
\* which reply_to_message_id, when the caller's extra has no such key, is
\* the message_id of the message of the any-message-bearing rule.
C9_ReplyTargetMergedUnderCallerExtra ==
  (last.op \in ReplyOps /\ last.res.t = "call")
    => LET caller == SpreadOf(last.args[2])
           sent == last.res.args[3].o
       IN  /\ \A k \in DOMAIN caller : k \in DOMAIN sent /\ sent[k] = caller[k]
           /\ "reply_to_message_id" \in DOMAIN sent
           /\ "reply_to_message_id" \notin DOMAIN caller
                => sent["reply_to_message_id"] =
                     SubField(AnyMessage(update), "message_id")

\* C9 witness: reply reached the transport on an Update with a message,
\* the caller's extra set reply_to_message_id and message_thread_id, and
\* both went out with the caller's values.
C9_Witness ==
  /\ last.op = "reply"
  /\ last.res.t = "call"
  /\ AnyMessage(update) # Undefined
  /\ last.args[2] = Obj([reply_to_message_id |-> Num(99),
                         message_thread_id |-> Num(77)])
  /\ last.res.args[3].o["reply_to_message_id"] = Num(99)
  /\ last.res.args[3].o["message_thread_id"] = Num(77)

\* C10: a thread-addressed forum-topic operation throws with no transport
\* call when the originating message of the Update (the message of the
\* any-message-bearing rule) has no thread identifier, and reaches the
\* transport with the resolved chat id and that thread identifier whenever
\* the originating message has one.
C10_ForumOpFollowsOriginatingThread ==
  last.op \in ForumOps
    => LET thread == SubField(AnyMessage(update), "message_thread_id") IN
       IF thread = Undefined
       THEN FailedBeforeTransport
       ELSE /\ ReachedTransport
            /\ last.res.method = last.op
            /\ last.res.args[1] = SubField(ExpectedChat(update), "id")
            /\ last.res.args[2] = thread

\* Send-type operations, and the reply-type operations built on them
SendOps == {"sendMessage", "sendPhoto"} \cup ReplyOps

\* C19: a send-type operation that reaches the transport with a caller's
\* extra that does not set message_thread_id passes, as message_thread_id,
\* the thread identifier of the originating message of the Update (the
\* message of the any-message-bearing rule) when that message belongs to a
\* forum topic, and no thread identifier when it does not.
C19_SendFollowsOriginatingTopic ==
  (last.op \in SendOps /\ last.res.t = "call")
    => LET caller == SpreadOf(last.args[2])
           sent == last.res.args[3].o
           origin == AnyMessage(update)
           passed == IF "message_thread_id" \in DOMAIN sent
                     THEN sent["message_thread_id"]
                     ELSE Undefined
       IN  "message_thread_id" \notin DOMAIN caller
             => passed = IF SubField(origin, "is_topic_message") = Bool(TRUE)
                         THEN SubField(origin, "message_thread_id")
                         ELSE Undefined

\* The operation passed its guard: it did not throw
GuardPassed == last.op \in Operations /\ ~IsThrow(last.res)

PassedChatId == last.res.args[1]
PassedMessageId == last.res.args[2]
PassedInlineMessageId == last.res.args[3]

\* One addressing mode is complete: chat id with message id, or the
\* inline-message-id
AddressingComplete ==
  \/ PassedChatId # Undefined /\ PassedMessageId # Undefined
  \/ PassedInlineMessageId # Undefined

\* The objects of the Update that have a chat and a message id of their own
MessagesOf(u) ==
  {Field(u, k) : k \in KeysOf(u)}
    \cup {SubField(Field(u, "callback_query"), "message")}

\* The chat id and the message id passed, when both are passed, are those
\* of one object of the Update
AddressedByOneObject ==
  (PassedChatId # Undefined /\ PassedMessageId # Undefined)
    => \E m \in MessagesOf(update) :
         /\ SubField(SubField(m, "chat"), "id") = PassedChatId
         /\ SubField(m, "message_id") = PassedMessageId

\* C21 as stated: whenever an edit-type operation has passed its guard and
\* called the transport, one addressing mode is complete, and a chat id and
\* a message id passed together come from one object of the Update.
C21_EditAddressingComplete ==
  (last.op \in EditOps /\ ReachedTransport)
    => (AddressingComplete /\ AddressedByOneObject)

\* C21 amended: whenever an edit-type operation has passed its guard and
\* called the transport, one addressing mode is complete unless the Update
\* has a callback query that carries neither its message nor an
\* inline-message-id, and on an Update with a single populated kind a chat
\* id and a message id passed together come from one object.
C21_EditAddressingCompleteIfQueryAddressed ==
  (last.op \in EditOps /\ ReachedTransport)
    => LET query == Field(update, "callback_query")
           bare == /\ query.t = "obj"
                   /\ SubField(query, "message") = Undefined
                   /\ SubField(query, "inline_message_id") = Undefined
       IN  /\ ~bare => AddressingComplete
           /\ bare => /\ PassedMessageId = Undefined
                      /\ PassedInlineMessageId = Undefined
           /\ SinglePopulated(update) => AddressedByOneObject

\* editMessageText reached the transport on an Update whose only populated
\* kind is a callback query with its message: chat id and message id are
\* those of that message, and no inline-message-id is passed
C21_Witness ==
  /\ last.op = "editMessageText"
  /\ ReachedTransport
  /\ SinglePopulated(update)
  /\ PassedChatId = SubField(ChatOf(CbMessageNo), "id")
  /\ PassedMessageId = MessageIdOf(CbMessageNo)
  /\ PassedInlineMessageId = Undefined

-----------------------------------------------------------------------------
(* What the claims about the webhook adapter speak of *)

\* The value each well-formed text denotes, written out by hand
ValueOfText ==
  (TextUpdate :> Obj([update_id |-> Num(1)]))
    @@ (TextPoll :>
          Obj([update_id |-> Num(12), poll |-> Obj([id |-> Text(<<"7">>)])]))
    @@ (TextRepeated :> Obj([ok |-> Arr(<<Bool(TRUE), Num(-3)>>)]))
    @@ (TextNull :> Null)

Nothing == [t |-> "nothing"]

\* The JSON decoding of a text, and of the UTF-8 bytes of a text
DecodingOfText(cs) == IF cs \in ValidTexts THEN ValueOfText[cs] ELSE Nothing

DecodingOfBytes(bytes) ==
  IF bytes = BytesBadInString THEN Text(<<ReplacementChar>>)
  ELSE IF \E cs \in ValidTexts : BytesOfText(cs) = bytes
    THEN ValueOfText[CHOOSE cs \in ValidTexts : BytesOfText(cs) = bytes]
  ELSE Nothing

\* What the body of a request denotes: the body itself when it is parsed
\* already, the decoding of its text, or the decoding of the stream
DecodingOfRequest(rq) ==
  IF IsNullish(rq.body) THEN DecodingOfBytes(rq.stream)
  ELSE IF rq.body.t = "buffer" THEN DecodingOfBytes(rq.body.bytes)
  ELSE IF rq.body.t = "str" THEN DecodingOfText(rq.body.cs)
  ELSE rq.body

HandlerInvoked == handled # << >>

\* C11: whenever the update handler has been invoked, the value it was
\* handed is the request's body itself when the body was parsed already,
\* the JSON decoding of the body's text when the body is a byte buffer or a
\* string, and the JSON decoding of the request's stream when the request
\* has no body; and the handler is invoked once at most.
C11_HandlerGetsDecodedBody ==
  HandlerInvoked => /\ Len(handled) = 1
                    /\ handled[1] = DecodingOfRequest(req)

\* A request whose Buffer body holds the poll Update has reached the handler
C11_Witness ==
  /\ HandlerInvoked
  /\ req.body = Buffer(BytesOfText(TextPoll))
  /\ handled[1] = ValueOfText[TextPoll]

Unparsable(rq) == DecodingOfRequest(rq) = Nothing

\* C12: for a request that passes the filter and whose Buffer or string body,
\* or whose stream, is no JSON, the handler is never invoked and the
\* adapter's promise is never rejected; once the parsing has failed the
\* response has status 415, was ended once, by the adapter, and the
\* adapter's call has completed normally.
C12_UnparsableAnswers415 ==
  (filter(req) /\ Unparsable(req)) =>
    /\ handled = << >>
    /\ handler = NotCalled
    /\ completion.t # "rejected"
    /\ parsed # NotCalled =>
         /\ parsed = SyntaxError
         /\ pc = "done"
         /\ res.statusCode = 415
         /\ res.ended = <<"adapter">>
         /\ completion = Fulfilled

\* A request without a body whose stream delivers a truncated object has
\* been answered
C12_Witness ==
  /\ filter(req)
  /\ IsNullish(req.body)
  /\ req.stream = BytesOfText(TextTruncated)
  /\ parsed = SyntaxError
  /\ res.statusCode = 415
  /\ res.writableEnded
  /\ completion = Fulfilled

\* C13: for a request the filter rejects, the handler is never invoked and
\* the body is never parsed; once the adapter's call has completed, with the
\* default continuation the response has status 403 and was ended once, by
\* the adapter, without a body, and with a continuation of the caller that
\* continuation was invoked exactly once and the adapter itself did not end
\* the response.
C13_RejectedGoesToContinuation ==
  ~req.accepted =>
    /\ handled = << >>
    /\ handler = NotCalled
    /\ parsed = NotCalled
    /\ pc \in {"idle", "received", "done"}
    /\ pc = "done" =>
         IF next = "default"
         THEN /\ res.statusCode = 403
              /\ res.ended = <<"adapter">>
              /\ ~res.body
              /\ continued = 0
         ELSE /\ continued = 1
              /\ \A i \in 1..Len(res.ended) : res.ended[i] # "adapter"

\* A rejected request that carries a well-formed Update has been answered
\* by the default continuation
C13_Witness ==
  /\ ~req.accepted
  /\ req.body = Text(TextUpdate)
  /\ next = "default"
  /\ pc = "done"
  /\ res.statusCode = 403
  /\ res.writableEnded

\* The finally block has run
AfterFinally == pc \in {"completing", "done"}

\* C14: once the handler has been invoked the response is never ended more
\* than once, and after the handler has settled and the finally block has
\* run it has been ended exactly once: by the adapter exactly when the
\* handler had not ended it.
C14_EndedExactlyOnce ==
  HandlerInvoked =>
    /\ Len(res.ended) <= 1
    /\ AfterFinally =>
         /\ res.writableEnded
         /\ res.ended \in {<<"handler">>, <<"adapter">>}

\* The handler ended the response itself, then settled, and the adapter's
\* call has completed
C14_Witness ==
  /\ HandlerInvoked
  /\ pc = "done"
  /\ res.ended = <<"handler">>

\* C15: when the handler throws or its promise is rejected, the adapter's
\* promise is never fulfilled; it is rejected with the handler's own
\* exception, and by the time it is rejected the response has been ended.
C15_HandlerFailurePropagates ==
  handler.t = "rejected" =>
    /\ completion # Fulfilled
    /\ pc = "done" => completion = handler
    /\ completion # Pending => res.writableEnded

\* The handler failed without ending the response: the adapter ended it
\* and its call was rejected with the same exception
C15_Witness ==
  /\ handler = Rejected("403: Forbidden")
  /\ completion = Rejected("403: Forbidden")
  /\ res.ended = <<"adapter">>

\* The status the claim gives a request: 403 when the filter rejects it,
\* 415 when its body is no JSON, and otherwise the handler's, which is 200
\* unless the handler answered with another
StatusAsClaimed ==
  IF ~req.accepted THEN res.statusCode = 403
  ELSE IF Unparsable(req) THEN res.statusCode = 415
  ELSE IF res.ended = <<"handler">> THEN res.statusCode \in HandlerStatuses
  ELSE res.statusCode = 200

\* C16 as stated: every request whose adapter call has completed - filter
\* rejected with the default or a caller's continuation, parse failure,
\* handler success, handler failure - has exactly one response, with the
\* status above.
C16_EveryRequestAnswered ==
  pc = "done" => (Len(res.ended) = 1 /\ StatusAsClaimed)

\* C16 amended: the same, except for a request that the filter rejects
\* while the caller passed a continuation of its own; there the response is
\* what that continuation made of it, ended once at most.
C16_AnsweredUnlessContinuation ==
  pc = "done" =>
    IF ~req.accepted /\ next = "custom"
    THEN \E does \in Continuations : res = customNext(NewResponse, does)
    ELSE Len(res.ended) = 1 /\ StatusAsClaimed

\* The handler failed without answering: the response went out with the
\* default status
C16_Witness ==
  /\ pc = "done"
  /\ req.accepted
  /\ handler.t = "rejected"
  /\ res.statusCode = 200
  /\ res.ended = <<"adapter">>

AdapterEnded == \E i \in 1..Len(res.ended) : res.ended[i] = "adapter"

\* C20: in every state in which the handler has been invoked and its promise
\* is still pending, the adapter has not ended the response and the promise
\* of the adapter's call is pending as well; so for as long as the handler
\* does not settle - for ever, if it never does - the adapter leaves the
\* response open and its call does not complete.
C20_NoFinalizeBeforeHandlerSettles ==
  (HandlerInvoked /\ handler = Pending) =>
    /\ ~AdapterEnded
    /\ completion = Pending
    /\ pc = "awaiting handler"

\* The handler has been called with the Update, has not settled and has not
\* answered: the response is open
C20_Witness ==
  /\ HandlerInvoked
  /\ handler = Pending
  /\ handled = <<ParsedUpdate>>
  /\ ~res.writableEnded
  /\ completion = Pending

====
